---- MODULE Spec2Model ----
(***************************************************************************)
(* Model of dataset_processor.py: the chat command handlers, the batch     *)
(* loop of process_files_from_paths, the per-element loop of               *)
(* process_single_file_from_path, the global processed_results slot and    *)
(* the three export artifacts.                                             *)
(*                                                                         *)
(* Conventions.  A Python string that the code trims, splits or measures   *)
(* is a sequence of one-character strings.  An optional value (None or a   *)
(* value) is a sequence of length 0 or 1.  A mapping is a function.  The   *)
(* chat transport (cl.Message(...).send()) is taken to deliver: a message  *)
(* sent is appended to out and the send does not raise.  The filesystem    *)
(* accepts the writes of export.                                           *)
(*                                                                         *)
(* Specifications.  Spec: the commands one at a time, on the files of the  *)
(* fixed disk.  SpecFile: one call of process_single_file_from_path, step  *)
(* by step, on every document up to MaxElems elements.  SpecAsync: the     *)
(* handlers of two sessions interleaved at their awaits.                   *)
(***************************************************************************)
EXTENDS Naturals, Sequences, FiniteSets

VARIABLES
    processed_results,  \* the module-level list of line 11
    exports,            \* the three files under exports/ (absent or content)
    out,                \* messages sent by the command in flight / last run
    pc,                 \* "idle", or the position of the process command
    run,                \* locals of process_files_from_paths in the latest command
    partitioned,        \* paths handed to partition() by the last command
    last_write,         \* history: the last command among process, clear and
                        \* export ("export_repeat": export right after export)
    file,               \* locals of one process_single_file_from_path call
    tasks               \* the handlers in flight when messages of several
                        \* sessions are served at once: position and locals

vars == <<processed_results, exports, out, pc, run, partitioned, last_write, file, tasks>>

-----------------------------------------------------------------------------
(* Bounds *)

MaxPaths == 2      \* longest argument list of a process command
MaxElems == 3      \* longest native element sequence explored per document

(* Program constants *)

MinTextLen == 2        \* line 127: len(text) < 2
ProgressEvery == 50    \* line 193: (i + 1) % 50 == 0
MaxShownErrors == 10   \* line 199: skipped_count <= 10
PreviewElements == 5   \* line 273: elements[:5]
PreviewChars == 200    \* line 275: element['text'][:200]

-----------------------------------------------------------------------------
(* Python string helpers: str.strip() and str.split() *)

Whitespace == {" ", "\n"}

RECURSIVE LStrip(_)
LStrip(s) ==
    IF s = <<>> THEN s
    ELSE IF Head(s) \in Whitespace THEN LStrip(Tail(s)) ELSE s

RECURSIVE RStrip(_)
RStrip(s) ==
    IF s = <<>> THEN s
    ELSE IF s[Len(s)] \in Whitespace THEN RStrip(SubSeq(s, 1, Len(s) - 1)) ELSE s

Strip(s) == RStrip(LStrip(s))

\* length of the leading run of non-whitespace characters of s
RECURSIVE TokenLen(_)
TokenLen(s) ==
    IF s = <<>> \/ Head(s) \in Whitespace THEN 0 ELSE 1 + TokenLen(Tail(s))

\* s.split(): the maximal runs of non-whitespace characters, in order
RECURSIVE Split(_)
Split(s) ==
    LET t == LStrip(s)
        n == TokenLen(t)
    IN  IF t = <<>> THEN <<>>
        ELSE <<SubSeq(t, 1, n)>> \o Split(SubSeq(t, n + 1, Len(t)))

-----------------------------------------------------------------------------
(* Native elements, as the partition engine hands them over.               *)
(*   cls       name of the element's class                                 *)
(*   text      the text attribute: <<>> for None/absent, else <<string>>   *)
(*   str       what str(element) renders                                   *)
(*   raises    reading the text raises an exception                        *)
(*   metadata  [how, items]: how the metadata object converts              *)
(*   coordinates  likewise                                                 *)

\* The classes of unstructured.documents.elements the code imports (line 8)
\* derive from Text; of the others in use here Address and PageBreak derive
\* from Text, CheckBox does not.
Ancestors(cls) ==
    CASE cls = "Text" -> {"Text"}
      [] cls \in {"Title", "NarrativeText", "ListItem", "Table", "Header", "Footer",
                 "Address", "PageBreak"}
              -> {cls, "Text"}
      [] OTHER -> {cls}

IsInstance(element, cls) == cls \in Ancestors(element.cls)

\* class_name.lower() of line 149, for the class names in use
Lower(name) ==
    CASE name = "CheckBox" -> "checkbox"
      [] name = "Address" -> "address"
      [] name = "PageBreak" -> "pagebreak"
      [] name = ".PNG" -> ".png"
      [] OTHER -> name

EmptyMapping == <<>>
NoObject == [how |-> "none", items |-> EmptyMapping]
PageMeta == [how |-> "to_dict", items |-> [page_number |-> <<1>>]]
AttrMeta == [how |-> "attrs", items |-> [page_number |-> <<1>>, _known |-> <<1>>, url |-> <<>>]]
BadMeta == [how |-> "raises", items |-> EmptyMapping]
Points == [how |-> "mapping", items |-> [x |-> <<1>>]]

Elem(cls, text, meta, coords) ==
    [cls |-> cls, text |-> text, str |-> <<>>, raises |-> FALSE,
     metadata |-> meta, coordinates |-> coords]

NativeElements ==
    { Elem("Title", << <<"a", "b">> >>, PageMeta, NoObject),
      Elem("NarrativeText", << <<" ", "a", "b", " ", "\n", "c", " ">> >>, AttrMeta, Points),
      Elem("ListItem", << <<"a", " ", "b">> >>, BadMeta, BadMeta),
      Elem("Text", << <<" ", "a", " ">> >>, PageMeta, NoObject),
      Elem("Table", << <<>> >>, NoObject, NoObject),
      Elem("Address", << <<"a", " ", "b">> >>, NoObject, NoObject),
      [Elem("CheckBox", <<>>, NoObject, Points) EXCEPT !.str = <<"x", "y", " ">>],
      Elem("PageBreak", << <<"\n", " ">> >>, NoObject, NoObject),
      [Elem("Header", << <<"a", "b">> >>, PageMeta, NoObject) EXCEPT !.raises = TRUE],
      [Elem("Footer", <<>>, NoObject, NoObject) EXCEPT !.raises = TRUE] }

-----------------------------------------------------------------------------
(* The filesystem and the partition engine *)

Path(stem, suffix) == [dir |-> "/in", stem |-> stem, suffix |-> suffix]

PathA == Path("a", ".pdf")
PathB == Path("b", ".PNG")
PathBad == Path("bad", ".pdf")
PathGone == Path("gone", ".txt")

Paths == {PathA, PathB, PathBad, PathGone}

\* os.path.exists(path), line 46
Exists(path) == path \in {PathA, PathB, PathBad}

\* os.path.basename(file_path)
Basename(path) == [stem |-> path.stem, suffix |-> path.suffix]

\* Path(file_path).suffix.lower()
FileExt(path) == Lower(path.suffix)

\* os.path.getsize(file_path)
GetSize(path) ==
    CASE path = PathA -> 120
      [] path = PathB -> 4096
      [] OTHER -> 7

ImageExts == {".jpg", ".jpeg", ".png", ".tiff", ".bmp"}

\* An outcome of partition(file_path): it raises, or returns a sequence.
Raised == [throws |-> TRUE, elements |-> <<>>]
Returned(elements) == [throws |-> FALSE, elements |-> elements]

BoundedSeq(S, n) == UNION {[1..k -> S] : k \in 0..n}

\* every outcome partition() can have on a document of at most MaxElems elements
PartitionOutcomes == {Raised} \cup {Returned(d) : d \in BoundedSeq(NativeElements, MaxElems)}

\* what partition() yields for the files on disk
DocA ==
    << Elem("Title", << <<"a", "b">> >>, PageMeta, NoObject),
       Elem("Text", << <<" ", "a", " ">> >>, PageMeta, NoObject),
       [Elem("Header", << <<"a", "b">> >>, PageMeta, NoObject) EXCEPT !.raises = TRUE],
       Elem("NarrativeText", << <<" ", "a", "b", " ", "\n", "c", " ">> >>, AttrMeta, Points) >>

DocB ==
    << [Elem("CheckBox", <<>>, NoObject, Points) EXCEPT !.str = <<"x", "y", " ">>] >>

Partition(path) ==
    CASE path = PathA -> Returned(DocA)
      [] path = PathB -> Returned(DocB)
      [] OTHER -> Raised

-----------------------------------------------------------------------------
(* process_single_file_from_path: the per-element loop, lines 117-203 *)

\* lines 120-124
ExtractText(element) ==
    IF element.text # <<>> THEN Strip(element.text[1]) ELSE Strip(element.str)

\* variant: only the empty string is dropped (the length test is missing)
IsDroppedEmptyOnly(text) == text = <<>>

\* line 127: not text or len(text) < 2
IsDropped(text) == text = <<>> \/ Len(text) < MinTextLen

\* variant: the else branch of lines 146-149 is missing, the initial value of
\* line 131 survives
ElementTypeUnknown(element) ==
    IF IsInstance(element, "Title") THEN "title"
    ELSE IF IsInstance(element, "NarrativeText") THEN "narrative"
    ELSE IF IsInstance(element, "ListItem") THEN "list_item"
    ELSE IF IsInstance(element, "Table") THEN "table"
    ELSE IF IsInstance(element, "Header") THEN "header"
    ELSE IF IsInstance(element, "Footer") THEN "footer"
    ELSE IF IsInstance(element, "Text") THEN "text"
    ELSE "unknown"

\* lines 131-149: the isinstance chain, then the lower-cased class name
ElementType(element) ==
    IF IsInstance(element, "Title") THEN "title"
    ELSE IF IsInstance(element, "NarrativeText") THEN "narrative"
    ELSE IF IsInstance(element, "ListItem") THEN "list_item"
    ELSE IF IsInstance(element, "Table") THEN "table"
    ELSE IF IsInstance(element, "Header") THEN "header"
    ELSE IF IsInstance(element, "Footer") THEN "footer"
    ELSE IF IsInstance(element, "Text") THEN "text"
    ELSE Lower(element.cls)

PrivateKeys == {"_known"}

\* the three conversions of lines 155-161 and 169-175
Converted(obj) ==
    IF obj.how = "attrs"
    THEN [k \in {k \in DOMAIN obj.items : k \notin PrivateKeys /\ obj.items[k] # <<>>}
            |-> obj.items[k]]
    ELSE obj.items

\* lines 152-163: {} when the object is absent or its conversion raises
ExtractMetadata(element) ==
    IF element.metadata.how \in {"none", "raises"} THEN EmptyMapping
    ELSE Converted(element.metadata)

\* lines 166-177: None when the object is absent or its conversion raises
ExtractCoordinates(element) ==
    IF element.coordinates.how \in {"none", "raises"} THEN <<>>
    ELSE <<Converted(element.coordinates)>>

\* lines 180-186
ElementRecord(element, text, i) ==
    [type |-> ElementType(element),
     text |-> text,
     metadata |-> ExtractMetadata(element),
     coordinates |-> ExtractCoordinates(element),
     element_index |-> i]

\* line 189: len(text.split())
WordCount(text) == Len(Split(text))

\* lines 193-194
ProgressMsgs(i, n) ==
    IF (i + 1) % ProgressEvery = 0
    THEN <<[kind |-> "progress", done |-> i + 1, total |-> n]>>
    ELSE <<>>


\* variant: the record is numbered by its rank among the retained records
RetainRenumbered(f, element, text) ==
    [f EXCEPT !.structured_data =
                  Append(@, ElementRecord(element, text, Len(f.structured_data))),
              !.word_count = @ + WordCount(text),
              !.processed_count = @ + 1,
              !.msgs = @ \o ProgressMsgs(f.i, Len(f.elements))]

\* lines 179-194: the element is retained
Retain(f, element, text) ==
    [f EXCEPT !.structured_data = Append(@, ElementRecord(element, text, f.i)),
              !.word_count = @ + WordCount(text),
              !.processed_count = @ + 1,
              !.msgs = @ \o ProgressMsgs(f.i, Len(f.elements))]

\* lines 196-203: the except branch of the loop body
Skip(f) ==
    LET k == f.skipped_count + 1 IN
    [f EXCEPT !.skipped_count = k,
              !.msgs = IF k <= MaxShownErrors
                       THEN Append(@, [kind |-> "element_warning", index |-> f.i + 1])
                       ELSE IF k = MaxShownErrors + 1
                            THEN Append(@, [kind |-> "element_note"])
                            ELSE @]

\* variant: an exception ends the loop (break where the code has continue)
LoopBodyAbortsOnError(f) ==
    LET element == f.elements[f.i + 1]
    IN  IF element.raises THEN [Skip(f) EXCEPT !.i = Len(f.elements)]
        ELSE IF IsDropped(ExtractText(element)) THEN [f EXCEPT !.i = f.i + 1]
        ELSE [Retain(f, element, ExtractText(element)) EXCEPT !.i = f.i + 1]

\* variant: the words are counted before the short-text filter of line 127
LoopBodyCountsDropped(f) ==
    LET element == f.elements[f.i + 1]
        text == ExtractText(element)
    IN  IF element.raises THEN [Skip(f) EXCEPT !.i = f.i + 1]
        ELSE IF IsDropped(text)
             THEN [f EXCEPT !.word_count = @ + WordCount(text), !.i = f.i + 1]
        ELSE [Retain(f, element, text) EXCEPT !.i = f.i + 1]

\* variant: the conversions of lines 152-177 have no try of their own, a
\* failing conversion reaches the except of line 196
LoopBodyConversionSkips(f) ==
    LET element == f.elements[f.i + 1]
        text == ExtractText(element)
    IN  IF element.raises THEN [Skip(f) EXCEPT !.i = f.i + 1]
        ELSE IF IsDropped(text) THEN [f EXCEPT !.i = f.i + 1]
        ELSE IF "raises" \in {element.metadata.how, element.coordinates.how}
             THEN [Skip(f) EXCEPT !.i = f.i + 1]
        ELSE [Retain(f, element, text) EXCEPT !.i = f.i + 1]

\* variant: an element the short-text filter drops is counted as skipped
LoopBodyDropIsSkip(f) ==
    LET element == f.elements[f.i + 1]
        text == ExtractText(element)
    IN  IF element.raises \/ IsDropped(text) THEN [Skip(f) EXCEPT !.i = f.i + 1]
        ELSE [Retain(f, element, text) EXCEPT !.i = f.i + 1]

\* lines 117-203: one iteration, on elements[i] (i counts from 0)
LoopBody(f) ==
    LET element == f.elements[f.i + 1]
        done == IF element.raises THEN Skip(f)
                ELSE IF IsDropped(ExtractText(element)) THEN f
                ELSE Retain(f, element, ExtractText(element))
    IN  [done EXCEPT !.i = f.i + 1]

-----------------------------------------------------------------------------
(* process_single_file_from_path as a whole, lines 96-241.                 *)
(* Its locals are one record; state is the position in the function:       *)
(* "pending" (not called), "partitioning" (before line 106), "classifying" *)
(* (the loop), "succeeded" (returned a dict), "failed" (raised).           *)

NoFile ==
    [state |-> "pending", path |-> PathA, elements |-> <<>>, i |-> 0,
     structured_data |-> <<>>, word_count |-> 0, processed_count |-> 0,
     skipped_count |-> 0, msgs |-> <<>>, result |-> <<>>]

\* lines 99-103: the call is entered; images announce OCR
FileBegin(path) ==
    [NoFile EXCEPT !.state = "partitioning",
                   !.path = path,
                   !.msgs = IF FileExt(path) \in ImageExts
                            THEN <<[kind |-> "ocr"]>> ELSE <<>>]

\* lines 106-115 when partition returns, lines 229-241 when it raises
FilePartitioned(f, outcome) ==
    IF outcome.throws
    THEN [f EXCEPT !.state = "failed",
                   !.msgs = Append(@, [kind |-> "processing_error", filename |-> Basename(f.path)])]
    ELSE [f EXCEPT !.state = "classifying",
                   !.elements = outcome.elements,
                   !.msgs = Append(@, [kind |-> "analyzing", found |-> Len(outcome.elements)])]

\* variant: total_elements_found reports the retained elements
FileResultTotalIsRetained(f) ==
    [success |-> TRUE,
     filename |-> Basename(f.path),
     file_path |-> f.path,
     file_size |-> GetSize(f.path),
     word_count |-> f.word_count,
     elements |-> f.structured_data,
     element_count |-> Len(f.structured_data),
     file_type |-> FileExt(f.path),
     total_elements_found |-> Len(f.structured_data),
     processed_count |-> f.processed_count,
     skipped_count |-> f.skipped_count]

\* lines 215-227
FileResult(f) ==
    [success |-> TRUE,
     filename |-> Basename(f.path),
     file_path |-> f.path,
     file_size |-> GetSize(f.path),
     word_count |-> f.word_count,
     elements |-> f.structured_data,
     element_count |-> Len(f.structured_data),
     file_type |-> FileExt(f.path),
     total_elements_found |-> Len(f.elements),
     processed_count |-> f.processed_count,
     skipped_count |-> f.skipped_count]

\* variant: a file that retained nothing is reported as a failure
FileReturnNeedsContent(f) ==
    IF f.structured_data = <<>>
    THEN [f EXCEPT !.state = "failed",
                   !.msgs = Append(@, [kind |-> "processing_error", filename |-> Basename(f.path)])]
    ELSE [f EXCEPT !.state = "succeeded",
                   !.msgs = Append(@, [kind |-> "file_summary", filename |-> Basename(f.path)]),
                   !.result = <<FileResult(f)>>]

\* lines 205-227: the summary message and the return
FileReturn(f) ==
    [f EXCEPT !.state = "succeeded",
              !.msgs = Append(@, [kind |-> "file_summary", filename |-> Basename(f.path)]),
              !.result = <<FileResult(f)>>]

\* the for loop of line 117 run to its end
RECURSIVE FileLoop(_)
FileLoop(f) == IF f.i >= Len(f.elements) THEN f ELSE FileLoop(LoopBody(f))

\* the whole call: its final locals, state "succeeded" or "failed"
ProcessSingleFile(path, outcome) ==
    LET p == FilePartitioned(FileBegin(path), outcome)
    IN  IF p.state = "failed" THEN p ELSE FileReturn(FileLoop(p))

-----------------------------------------------------------------------------
(* One call of process_single_file_from_path, step by step, on any         *)
(* document the partition engine can return.                               *)

FileCall ==
    /\ file.state = "pending"
    /\ \E path \in {p \in Paths : Exists(p)} : file' = FileBegin(path)

FilePartition ==
    /\ file.state = "partitioning"
    /\ \E outcome \in PartitionOutcomes : file' = FilePartitioned(file, outcome)

FileClassify ==
    /\ file.state = "classifying"
    /\ file.i < Len(file.elements)
    /\ file' = LoopBody(file)

FileFinish ==
    /\ file.state = "classifying"
    /\ file.i >= Len(file.elements)
    /\ file' = FileReturn(file)

RestIdle ==
    UNCHANGED <<processed_results, exports, out, pc, run, partitioned, last_write, tasks>>

NextFile ==
    \/ FileCall /\ RestIdle
    \/ FilePartition /\ RestIdle
    \/ FileClassify /\ RestIdle
    \/ FileFinish /\ RestIdle

-----------------------------------------------------------------------------
(* process_files_from_paths, lines 34-94 *)

NoRun == [file_paths |-> <<>>, valid_paths |-> <<>>, results |-> <<>>, i |-> 0]

\* lines 44-49: the paths that exist, in the order given
RECURSIVE ValidPaths(_)
ValidPaths(file_paths) ==
    IF file_paths = <<>> THEN <<>>
    ELSE IF Exists(Head(file_paths))
         THEN <<Head(file_paths)>> \o ValidPaths(Tail(file_paths))
         ELSE ValidPaths(Tail(file_paths))

\* line 49: one warning per path that does not exist, in the order given
RECURSIVE NotFoundWarnings(_)
NotFoundWarnings(file_paths) ==
    IF file_paths = <<>> THEN <<>>
    ELSE IF Exists(Head(file_paths))
         THEN NotFoundWarnings(Tail(file_paths))
         ELSE <<[kind |-> "not_found", path |-> Head(file_paths)]>>
                  \o NotFoundWarnings(Tail(file_paths))

\* lines 60-73: one iteration of the batch loop on valid_paths[i]; the
\* result is appended only when the call returns (line 66), an exception
\* is reported and the loop continues (lines 70-73)
BatchStep(r, outcome) ==
    LET path == r.valid_paths[r.i + 1]
        f == ProcessSingleFile(path, outcome)
    IN  [r EXCEPT !.results = IF f.state = "succeeded" THEN Append(@, f.result[1]) ELSE @,
                  !.i = @ + 1]

\* the messages of that iteration: lines 62, 68 or 72, and the callee's
BatchStepMsgs(r, outcome) ==
    LET path == r.valid_paths[r.i + 1]
        f == ProcessSingleFile(path, outcome)
    IN  <<[kind |-> "processing_file", index |-> r.i + 1, total |-> Len(r.valid_paths)]>>
        \o f.msgs
        \o <<[kind |-> IF f.state = "succeeded" THEN "file_ok" ELSE "file_error",
              filename |-> Basename(path)]>>

Succeeded(results) == SelectSeq(results, LAMBDA x : x.success)

RECURSIVE SumElementCount(_)
SumElementCount(results) ==
    IF results = <<>> THEN 0
    ELSE Head(results).element_count + SumElementCount(Tail(results))

\* lines 79-94
BatchSummary(r) ==
    [kind |-> "batch_summary",
     files_processed |-> Len(r.valid_paths),
     successful |-> Len(Succeeded(r.results)),
     total_elements |-> SumElementCount(Succeeded(r.results))]

-----------------------------------------------------------------------------
(* show_processed_content, lines 243-280 *)

\* str.title() and str.upper() on the element kinds in use
TitleCase(kind) ==
    CASE kind = "title" -> "Title"
      [] kind = "narrative" -> "Narrative"
      [] kind = "list_item" -> "List_Item"
      [] kind = "table" -> "Table"
      [] kind = "header" -> "Header"
      [] kind = "footer" -> "Footer"
      [] kind = "text" -> "Text"
      [] kind = "checkbox" -> "Checkbox"
      [] kind = "pagebreak" -> "Pagebreak"
      [] OTHER -> kind

UpperCase(kind) ==
    CASE kind = "title" -> "TITLE"
      [] kind = "narrative" -> "NARRATIVE"
      [] kind = "list_item" -> "LIST_ITEM"
      [] kind = "table" -> "TABLE"
      [] kind = "header" -> "HEADER"
      [] kind = "footer" -> "FOOTER"
      [] kind = "text" -> "TEXT"
      [] kind = "checkbox" -> "CHECKBOX"
      [] kind = "pagebreak" -> "PAGEBREAK"
      [] OTHER -> kind

Prefix(s, n) == SubSeq(s, 1, IF Len(s) < n THEN Len(s) ELSE n)

\* the five columns show and the CSV export both print of a result
SummaryRow(result) ==
    [filename |-> result.filename,
     element_count |-> result.element_count,
     word_count |-> result.word_count,
     file_size |-> result.file_size,
     file_type |-> result.file_type]

MapSeq(s, Op(_)) == [k \in 1..Len(s) |-> Op(s[k])]

\* lines 253-262
ShowSummary(results) ==
    [kind |-> "show_summary", files |-> MapSeq(Succeeded(results), SummaryRow)]

\* lines 273-275
PreviewItem(element) ==
    [type |-> TitleCase(element.type),
     text |-> Prefix(element.text, PreviewChars),
     ellipsis |-> Len(element.text) > PreviewChars]

\* lines 266-280
Preview(result) ==
    [kind |-> "preview",
     filename |-> result.filename,
     items |-> MapSeq(Prefix(result.elements, PreviewElements), PreviewItem),
     more |-> IF Len(result.elements) > PreviewElements
              THEN Len(result.elements) - PreviewElements ELSE 0]

HasElements(result) == result.success /\ result.elements # <<>>

\* lines 265-280
ShowPreviews(results) == MapSeq(SelectSeq(results, HasElements), Preview)

-----------------------------------------------------------------------------
(* export_processed_data, lines 282-338 *)

Absent == <<>>
NoExports == [json |-> Absent, csv |-> Absent, txt |-> Absent]

\* line 299: the document json.dump writes, as the value it encodes
JsonDump(results) == results

RECURSIVE Flatten(_)
Flatten(rows) == IF rows = <<>> THEN <<>> ELSE Head(rows) \o Flatten(Tail(rows))

\* variant: the table is flattened, one line per element of each successful
\* result
CsvLinesPerElement(results) ==
    <<[header |-> <<"filename", "type", "text", "word_count", "file_type">>]>>
    \o Flatten(MapSeq(Succeeded(results),
                      LAMBDA result :
                          MapSeq(result.elements,
                                 LAMBDA element :
                                     [filename |-> result.filename,
                                      type |-> element.type,
                                      text |-> element.text,
                                      word_count |-> WordCount(element.text),
                                      file_type |-> result.file_type])))

\* lines 304-307: the header line, then one line per successful result
CsvLines(results) ==
    <<[header |-> <<"filename", "element_count", "word_count", "file_size", "file_type">>]>>
    \o MapSeq(Succeeded(results), SummaryRow)

\* lines 321-322
TextEntry(element) == [tag |-> UpperCase(element.type), text |-> element.text]

\* lines 314-322
TextBlock(result) ==
    [file |-> result.filename,
     elements |-> result.element_count,
     words |-> result.word_count,
     body |-> MapSeq(result.elements, TextEntry)]

\* lines 312-322
TextReport(results) == MapSeq(Succeeded(results), TextBlock)

\* variant: open(path, 'a'), the content is added to what the file holds
WriteFileAppend(old, content) ==
    IF old = <<>> THEN <<content>> ELSE <<old[1] \o content>>

\* open(path, 'w'): the file is created or truncated, then holds content
WriteFile(old, content) == <<content>>

\* lines 292-322
ExportArtifacts(old, results) ==
    [json |-> WriteFile(old.json, JsonDump(results)),
     csv |-> WriteFile(old.csv, CsvLines(results)),
     txt |-> WriteFile(old.txt, TextReport(results))]

-----------------------------------------------------------------------------
(* handle_message, lines 407-431.  A message is its first word (already    *)
(* lower case) and the path arguments that follow it; content is in one of *)
(* the keyword lists only when the word stands alone.                      *)

HelpWords == {"help", "?", "info"}
ShowWords == {"show", "preview", "view"}
ExportWords == {"export", "download", "save"}
ClearWords == {"clear", "reset", "new"}
DemoWords == {"demo", "example", "sample"}
\* words for which content.startswith('process') holds
ProcessWords == {"process", "processing"}

Words == HelpWords \cup ShowWords \cup ExportWords \cup ClearWords \cup DemoWords
             \cup ProcessWords \cup {"hello"}

Messages == [word : Words, args : BoundedSeq(Paths, MaxPaths)]

\* content in [...]
IsKeyword(m, list) == m.args = <<>> /\ m.word \in list

\* which branch of the if/elif chain of lines 413-431 takes the message
Branch(m) ==
    IF IsKeyword(m, HelpWords) THEN "help"
    ELSE IF m.word \in ProcessWords THEN "process"
    ELSE IF IsKeyword(m, ShowWords) THEN "show"
    ELSE IF IsKeyword(m, ExportWords) THEN "export"
    ELSE IF IsKeyword(m, ClearWords) THEN "clear"
    ELSE IF IsKeyword(m, DemoWords) THEN "demo"
    ELSE "tip"

\* the messages a branch of the chain takes
MessagesFor(branch) == {m \in Messages : Branch(m) = branch}

HelpMessages == MessagesFor("help")
ProcessMessages == MessagesFor("process")
ShowMessages == MessagesFor("show")
ExportMessages == MessagesFor("export")
ClearMessages == MessagesFor("clear")
DemoMessages == MessagesFor("demo")
TipMessages == MessagesFor("tip")

\* message.content.split()[1:]
PathArgs(m) == m.args

\* a command starts: out and partitioned describe the latest command only
Say(msgs) == out' = msgs /\ partitioned' = <<>>

\* a command that does not call process_files_from_paths: no locals of it
Reply(msgs) == Say(msgs) /\ run' = NoRun

\* lines 413-414, 428-431: help, demo and the tip only send a message
Help ==
    /\ pc = "idle"
    /\ HelpMessages # {}
    /\ Reply(<<[kind |-> "help"]>>)
    /\ UNCHANGED <<processed_results, exports, pc, last_write, file, tasks>>

Demo ==
    /\ pc = "idle"
    /\ DemoMessages # {}
    /\ Reply(<<[kind |-> "demo"]>>)
    /\ UNCHANGED <<processed_results, exports, pc, last_write, file, tasks>>

Tip ==
    /\ pc = "idle"
    /\ TipMessages # {}
    /\ Reply(<<[kind |-> "tip"]>>)
    /\ UNCHANGED <<processed_results, exports, pc, last_write, file, tasks>>

\* variant: the test of line 417 is missing, the empty list of paths is
\* run as an empty batch and stored
ProcessNoArgsStoresEmptyBatch ==
    /\ pc = "idle"
    /\ \E m \in ProcessMessages : PathArgs(m) = <<>>
    /\ processed_results' = <<>>
    /\ Reply(<<[kind |-> "provide_paths"]>>)
    /\ last_write' = "process"
    /\ UNCHANGED <<exports, pc, file, tasks>>

\* lines 415-421 with no path after the word
ProcessNoArgs ==
    /\ pc = "idle"
    /\ \E m \in ProcessMessages : PathArgs(m) = <<>>
    /\ Reply(<<[kind |-> "provide_paths"]>>)
    /\ last_write' = "process"
    /\ UNCHANGED <<processed_results, exports, pc, file, tasks>>

\* variant: the return of lines 51-53 is missing
ProcessStartedAlwaysEnters(file_paths) ==
    IF file_paths = <<>>
    THEN [msgs |-> <<[kind |-> "no_paths"]>>, enter |-> FALSE]
    ELSE [msgs |-> Append(NotFoundWarnings(file_paths),
                          [kind |-> "starting", count |-> Len(ValidPaths(file_paths))]),
          enter |-> TRUE]

\* lines 39-58: validation.  With no valid path the call returns at line 53
\* (line 41 for an empty list); otherwise the batch loop is entered.
ProcessStarted(file_paths) ==
    IF file_paths = <<>>
    THEN [msgs |-> <<[kind |-> "no_paths"]>>, enter |-> FALSE]
    ELSE IF ValidPaths(file_paths) = <<>>
    THEN [msgs |-> Append(NotFoundWarnings(file_paths), [kind |-> "no_valid_paths"]),
          enter |-> FALSE]
    ELSE [msgs |-> Append(NotFoundWarnings(file_paths),
                          [kind |-> "starting", count |-> Len(ValidPaths(file_paths))]),
          enter |-> TRUE]

\* lines 416-419: the argument lists process_files_from_paths is called with
ProcessCalls == {PathArgs(m) : m \in ProcessMessages} \ {<<>>}

ProcessStart ==
    /\ pc = "idle"
    /\ \E file_paths \in ProcessCalls :
          /\ Say(ProcessStarted(file_paths).msgs)
          /\ run' = [NoRun EXCEPT !.file_paths = file_paths,
                                  !.valid_paths = ValidPaths(file_paths)]
          /\ pc' = IF ProcessStarted(file_paths).enter THEN "processing" ELSE "idle"
    /\ last_write' = "process"
    /\ UNCHANGED <<processed_results, exports, file, tasks>>

\* lines 60-73
ProcessFile ==
    /\ pc = "processing"
    /\ run.i < Len(run.valid_paths)
    /\ LET path == run.valid_paths[run.i + 1] IN
          /\ run' = BatchStep(run, Partition(path))
          /\ out' = out \o BatchStepMsgs(run, Partition(path))
          /\ partitioned' = Append(partitioned, path)
    /\ UNCHANGED <<processed_results, exports, pc, last_write, file, tasks>>

\* variant: line 76 extends the stored list instead of rebinding the name
ProcessStoreExtends ==
    /\ pc = "processing"
    /\ run.i >= Len(run.valid_paths)
    /\ processed_results' = processed_results \o run.results
    /\ out' = Append(out, BatchSummary(run))
    /\ pc' = "idle"
    /\ UNCHANGED <<exports, run, partitioned, last_write, file, tasks>>

\* lines 75-94
ProcessStore ==
    /\ pc = "processing"
    /\ run.i >= Len(run.valid_paths)
    /\ processed_results' = run.results
    /\ out' = Append(out, BatchSummary(run))
    /\ pc' = "idle"
    /\ UNCHANGED <<exports, run, partitioned, last_write, file, tasks>>

\* lines 243-280
ShowMsgs(results) ==
    IF results = <<>> THEN <<[kind |-> "no_data_to_show"]>>
    ELSE <<ShowSummary(results)>> \o ShowPreviews(results)

Show ==
    /\ pc = "idle"
    /\ ShowMessages # {}
    /\ Reply(ShowMsgs(processed_results))
    /\ UNCHANGED <<processed_results, exports, pc, last_write, file, tasks>>

\* lines 282-338
Export ==
    /\ pc = "idle"
    /\ ExportMessages # {}
    /\ IF processed_results = <<>>
       THEN /\ Reply(<<[kind |-> "no_data_to_export"]>>)
            /\ UNCHANGED exports
       ELSE /\ exports' = ExportArtifacts(exports, processed_results)
            /\ Reply(<<[kind |-> "export_complete"]>>)
    /\ last_write' = IF last_write \in {"export", "export_repeat"}
                     THEN "export_repeat" ELSE "export"
    /\ UNCHANGED <<processed_results, pc, file, tasks>>

\* variant: the global statement of line 343 is missing, the assignment of
\* line 344 binds a local name
ClearLocalOnly ==
    /\ pc = "idle"
    /\ ClearMessages # {}
    /\ Reply(<<[kind |-> "cleared"]>>)
    /\ last_write' = "clear"
    /\ UNCHANGED <<processed_results, exports, pc, file, tasks>>

\* lines 340-345
Clear ==
    /\ pc = "idle"
    /\ ClearMessages # {}
    /\ processed_results' = <<>>
    /\ Reply(<<[kind |-> "cleared"]>>)
    /\ last_write' = "clear"
    /\ UNCHANGED <<exports, pc, file, tasks>>

-----------------------------------------------------------------------------
(* Handlers that overlap.  handle_message is a coroutine (line 408) and so  *)
(* is every command; at each awaited send the event loop may run the       *)
(* handler of another message, of the same or of another session, and all  *)
(* of them share the module-level processed_results of line 11.  A step    *)
(* below is the code of one handler between two awaits.                    *)

Tasks == {"s1", "s2"}

\* a handler: where it is, the locals of process_files_from_paths, and the
\* messages it has sent since its command arrived
NoTask == [pc |-> "idle", run |-> NoRun, msgs |-> <<>>]

\* the process commands the sessions send
SessionCalls == { <<PathA>>, <<PathB, PathA>>, <<PathBad, PathB>> }

Becomes(t, task) == tasks' = [tasks EXCEPT ![t] = task]

RestAsync == UNCHANGED <<out, pc, run, partitioned, file>>

\* lines 39-58, up to the first await of the batch loop (line 62)
AsyncProcessStart ==
    /\ \E t \in Tasks : \E file_paths \in SessionCalls :
          /\ tasks[t].pc = "idle"
          /\ Becomes(t, [pc |-> IF ProcessStarted(file_paths).enter
                                THEN "processing" ELSE "idle",
                         run |-> [NoRun EXCEPT !.file_paths = file_paths,
                                               !.valid_paths = ValidPaths(file_paths)],
                         msgs |-> ProcessStarted(file_paths).msgs])
    /\ last_write' = "process"
    /\ UNCHANGED <<processed_results, exports>>
    /\ RestAsync

\* variant: every result is appended to the module-level list as it comes
AsyncProcessFileStoresResult ==
    /\ \E t \in Tasks :
          /\ tasks[t].pc = "processing"
          /\ tasks[t].run.i < Len(tasks[t].run.valid_paths)
          /\ LET r == tasks[t].run
                 outcome == Partition(r.valid_paths[r.i + 1])
             IN  /\ Becomes(t, [tasks[t] EXCEPT
                                   !.run = BatchStep(r, outcome),
                                   !.msgs = @ \o BatchStepMsgs(r, outcome)])
                 /\ processed_results' = BatchStep(r, outcome).results
    /\ UNCHANGED <<exports, last_write>>
    /\ RestAsync

\* lines 60-73: one document, between the awaits of line 62 and of line 68
\* (or 72); the results go to the local list
AsyncProcessFile ==
    /\ \E t \in Tasks :
          /\ tasks[t].pc = "processing"
          /\ tasks[t].run.i < Len(tasks[t].run.valid_paths)
          /\ LET r == tasks[t].run
                 outcome == Partition(r.valid_paths[r.i + 1])
             IN  Becomes(t, [tasks[t] EXCEPT
                                !.run = BatchStep(r, outcome),
                                !.msgs = @ \o BatchStepMsgs(r, outcome)])
    /\ UNCHANGED <<processed_results, exports, last_write>>
    /\ RestAsync

\* lines 75-94: the assignment of line 76 and the summary
AsyncProcessStore ==
    /\ \E t \in Tasks :
          /\ tasks[t].pc = "processing"
          /\ tasks[t].run.i >= Len(tasks[t].run.valid_paths)
          /\ processed_results' = tasks[t].run.results
          /\ Becomes(t, [tasks[t] EXCEPT
                             !.pc = "idle",
                             !.msgs = Append(@, BatchSummary(tasks[t].run))])
    /\ UNCHANGED <<exports, last_write>>
    /\ RestAsync

\* lines 248-262: the test of line 248 and the summary, built from the list
\* as it is now, up to the await of line 262 (line 249 on an empty list)
AsyncShowSummary ==
    /\ \E t \in Tasks :
          /\ tasks[t].pc = "idle"
          /\ IF processed_results = <<>>
             THEN Becomes(t, [NoTask EXCEPT !.msgs = <<[kind |-> "no_data_to_show"]>>])
             ELSE Becomes(t, [NoTask EXCEPT !.pc = "showing",
                                            !.msgs = <<ShowSummary(processed_results)>>])
    /\ UNCHANGED <<processed_results, exports, last_write>>
    /\ RestAsync

\* lines 265-280: the second loop reads the module-level name again (line
\* 265) and iterates over the list it finds there
AsyncShowPreviews ==
    /\ \E t \in Tasks :
          /\ tasks[t].pc = "showing"
          /\ Becomes(t, [tasks[t] EXCEPT
                             !.pc = "idle",
                             !.msgs = @ \o ShowPreviews(processed_results)])
    /\ UNCHANGED <<processed_results, exports, last_write>>
    /\ RestAsync

\* lines 282-338: no await before the files are written
AsyncExport ==
    /\ \E t \in Tasks :
          /\ tasks[t].pc = "idle"
          /\ IF processed_results = <<>>
             THEN /\ Becomes(t, [NoTask EXCEPT !.msgs = <<[kind |-> "no_data_to_export"]>>])
                  /\ UNCHANGED exports
             ELSE /\ exports' = ExportArtifacts(exports, processed_results)
                  /\ Becomes(t, [NoTask EXCEPT !.msgs = <<[kind |-> "export_complete"]>>])
    /\ last_write' = IF last_write \in {"export", "export_repeat"}
                     THEN "export_repeat" ELSE "export"
    /\ UNCHANGED processed_results
    /\ RestAsync

\* lines 340-345: the assignment comes before the await
AsyncClear ==
    /\ \E t \in Tasks :
          /\ tasks[t].pc = "idle"
          /\ Becomes(t, [NoTask EXCEPT !.msgs = <<[kind |-> "cleared"]>>])
    /\ processed_results' = <<>>
    /\ last_write' = "clear"
    /\ UNCHANGED exports
    /\ RestAsync

NextAsync ==
    \/ AsyncProcessStart
    \/ AsyncProcessFile
    \/ AsyncProcessStore
    \/ AsyncShowSummary
    \/ AsyncShowPreviews
    \/ AsyncExport
    \/ AsyncClear

-----------------------------------------------------------------------------

Init ==
    /\ processed_results = <<>>
    /\ exports = NoExports
    /\ out = <<>>
    /\ pc = "idle"
    /\ run = NoRun
    /\ partitioned = <<>>
    /\ last_write = "none"
    /\ file = NoFile
    /\ tasks = [t \in Tasks |-> NoTask]

Next ==
    \/ Help
    \/ Demo
    \/ Tip
    \/ ProcessNoArgs
    \/ ProcessStart
    \/ ProcessFile
    \/ ProcessStore
    \/ Show
    \/ Export
    \/ Clear

\* the program: one command at a time
Spec == Init /\ [][Next]_vars

\* one call of process_single_file_from_path on any document
SpecFile == Init /\ [][NextFile]_vars

\* the program when the handlers of several messages overlap
SpecAsync == Init /\ [][NextAsync]_vars

-----------------------------------------------------------------------------
(* Properties of the batch loop *)

Last(s) == s[Len(s)]

\* the batch loop has handed valid_paths[k] to process_single_file_from_path
Visited(k) == k \in 1..run.i

\* the results of the run in flight that belong to valid_paths[k]
ResultsFor(k) ==
    {j \in 1..Len(run.results) : run.results[j].file_path = run.valid_paths[k]}

\* C1: partial-failure isolation.  In every batch, a document whose partition
\* call raised has a FileResult with success = false and zero elements and
\* words among the results of the run, and the loop goes on to every later
\* document (at the end of the run every valid path was visited).
C1_FailedFileHasResult ==
    /\ \A k \in 1..Len(run.valid_paths) :
          (Visited(k) /\ Partition(run.valid_paths[k]).throws) =>
              \E j \in ResultsFor(k) :
                  /\ run.results[j].success = FALSE
                  /\ run.results[j].elements = <<>>
                  /\ run.results[j].word_count = 0
    /\ (pc = "idle" /\ run.valid_paths # <<>>) => run.i = Len(run.valid_paths)

\* the part of C1 the code does keep: a raising document never stops the loop,
\* every valid path after it is handed to partition() in turn
LaterDocumentsProcessed ==
    /\ pc = "processing" => partitioned = SubSeq(run.valid_paths, 1, run.i)
    /\ (pc = "idle" /\ run.valid_paths # <<>> /\ out # <<>>
            /\ Last(out).kind = "batch_summary") => partitioned = run.valid_paths

\* the state right after a process command has stored its batch
BatchStored ==
    /\ pc = "idle"
    /\ out # <<>>
    /\ Last(out).kind = "batch_summary"

\* C2: batch order invariant.  After a process command with n >= 1 valid
\* sources the store holds exactly n FileResults and the i-th one is the
\* result of the i-th valid source.
C2_BatchOrder ==
    BatchStored =>
        /\ Len(processed_results) = Len(run.valid_paths)
        /\ \A k \in 1..Len(processed_results) :
              /\ processed_results[k].file_path = run.valid_paths[k]
              /\ processed_results[k].filename = Basename(run.valid_paths[k])

-----------------------------------------------------------------------------
(* Properties of one process_single_file_from_path call *)

\* the native elements the loop has gone through so far (positions 1..i)
Seen == 1..file.i

Raising(S) == {k \in S : file.elements[k].raises}

\* the text the code would trim, taken from the native element itself
RawText(element) == IF element.text # <<>> THEN element.text[1] ELSE element.str

\* the elements the short-text filter drops
Short(S) == {k \in S : ~file.elements[k].raises /\ Len(Strip(RawText(file.elements[k]))) < 2}

Returned1 == file.state = "succeeded" /\ Len(file.result) = 1

\* C3: retained + skipped never exceeds the number of native elements found,
\* in the FileResult returned and at every iteration of the loop on the way.
C3_CountsWithinTotal ==
    /\ file.processed_count + file.skipped_count <= file.i
    /\ file.i <= Len(file.elements)
    /\ file.state = "succeeded" =>
          /\ Returned1
          /\ file.result[1].processed_count + file.result[1].skipped_count
                <= file.result[1].total_elements_found
          /\ file.result[1].total_elements_found = Len(file.elements)

\* a returned file with a retained, a skipped and a dropped element
C3_Witness ==
    /\ Returned1
    /\ file.result[1].processed_count >= 1
    /\ file.result[1].skipped_count >= 1
    /\ file.result[1].processed_count + file.result[1].skipped_count
          < file.result[1].total_elements_found

\* C4: per-element failure isolation.  When k of the n native elements raise
\* and none is dropped by the short-text filter, the file succeeds with
\* skipped_count = k, retained = n - k, total_elements_found = n; the loop
\* never leaves "classifying" for "failed", and every element after a raising
\* one is still classified (the loop index passes it and reaches n).
C4_ElementFailureIsolated ==
    /\ (file.state \in {"classifying", "succeeded"} /\ Short(Seen) = {}) =>
          /\ file.skipped_count = Cardinality(Raising(Seen))
          /\ file.processed_count = file.i - Cardinality(Raising(Seen))
          /\ Len(file.structured_data) = file.processed_count
    /\ (file.state = "succeeded" /\ Short(Seen) = {}) =>
          /\ Returned1
          /\ file.i = Len(file.elements)
          /\ file.result[1].success
          /\ file.result[1].skipped_count = Cardinality(Raising(1..Len(file.elements)))
          /\ file.result[1].processed_count
                = Len(file.elements) - Cardinality(Raising(1..Len(file.elements)))
          /\ file.result[1].element_count = file.result[1].processed_count
          /\ file.result[1].total_elements_found = Len(file.elements)
    /\ file.state = "failed" => (file.elements = <<>> /\ file.i = 0)

\* three elements, the first two raise, the third is classified and retained
C4_Witness ==
    /\ Returned1
    /\ Short(Seen) = {}
    /\ Raising(Seen) = {1, 2}
    /\ file.result[1].total_elements_found = 3
    /\ file.result[1].skipped_count = 2
    /\ file.result[1].processed_count = 1
    /\ file.result[1].elements[1].element_index = 2

RECURSIVE SumTokens(_)
SumTokens(records) ==
    IF records = <<>> THEN 0
    ELSE Len(Split(Head(records).text)) + SumTokens(Tail(records))

\* C5: word_count is the sum, over exactly the records of the elements list,
\* of the number of whitespace-delimited tokens of the record's text; this
\* holds of the running count at every iteration and of the FileResult.
C5_WordCountIsSumOfTokens ==
    /\ file.word_count = SumTokens(file.structured_data)
    /\ file.state = "succeeded" =>
          /\ Returned1
          /\ file.result[1].word_count = SumTokens(file.result[1].elements)

\* a returned file with several retained records of more than one token, one
\* element dropped that had a token, and one element skipped
C5_Witness ==
    /\ Returned1
    /\ file.result[1].word_count >= 3
    /\ Len(file.result[1].elements) >= 2
    /\ \E k \in Short(Seen) : Split(RawText(file.elements[k])) # <<>>

\* the records retained for the native element at position k (index k - 1)
RecordsOf(k) ==
    {j \in 1..Len(file.structured_data) : file.structured_data[j].element_index = k - 1}

\* C6: every ElementRecord has trimmed text of length >= 2; an element whose
\* trimmed text is shorter yields no record and is not counted as skipped.
C6_NoShortText ==
    /\ \A j \in 1..Len(file.structured_data) :
          /\ Len(file.structured_data[j].text) >= 2
          /\ Strip(file.structured_data[j].text) = file.structured_data[j].text
    /\ \A k \in Short(Seen) : RecordsOf(k) = {}
    /\ file.skipped_count = Cardinality(Raising(Seen))
    /\ file.state = "succeeded" =>
          /\ Returned1
          /\ file.result[1].elements = file.structured_data
          /\ file.result[1].skipped_count = Cardinality(Raising(Seen))

\* a returned file where an element of trimmed length 1 was dropped, nothing
\* was skipped and a record was retained
C6_Witness ==
    /\ Returned1
    /\ \E k \in Short(Seen) : Len(Strip(RawText(file.elements[k]))) = 1
    /\ file.result[1].skipped_count = 0
    /\ file.result[1].elements # <<>>

-----------------------------------------------------------------------------
(* Properties of the commands *)

\* C7: clear empties the store; from an empty store export reports that
\* there is nothing to export and no step creates or overwrites an artifact,
\* show reports that there is no data; the store stays empty until a process
\* command stores the batch it built.
C7_ClearedStoreRefusesExport ==
    [][ /\ Clear => processed_results' = <<>>
        /\ processed_results = <<>> => exports' = exports
        /\ (processed_results = <<>> /\ Export) =>
               out' = <<[kind |-> "no_data_to_export"]>>
        /\ (processed_results = <<>> /\ Show) =>
               out' = <<[kind |-> "no_data_to_show"]>>
        /\ (processed_results = <<>> /\ processed_results' # <<>>) =>
               (ProcessStore /\ processed_results' = run.results)
      ]_vars

\* a batch was stored and exported and clear has just run: the store is
\* empty while the artifacts of the earlier export are in place
C7_Witness ==
    /\ pc = "idle"
    /\ out = <<[kind |-> "cleared"]>>
    /\ last_write = "clear"
    /\ processed_results = <<>>
    /\ exports.json # Absent
    /\ Len(exports.json[1]) = 2

\* C8: export is idempotent.  An export that follows an export with no
\* process or clear command between them leaves the three artifacts as the
\* first one wrote them; an export on a non-empty store writes all three;
\* export never changes the store.
C8_ExportIdempotent ==
    [][ Export =>
          /\ processed_results' = processed_results
          /\ last_write \in {"export", "export_repeat"} => exports' = exports
          /\ processed_results # <<>> =>
                /\ exports'.json # Absent
                /\ exports'.csv # Absent
                /\ exports'.txt # Absent
                /\ out' = <<[kind |-> "export_complete"]>>
      ]_vars

\* two exports in a row on a store of two results, one with several records
C8_Witness ==
    /\ last_write = "export_repeat"
    /\ Len(processed_results) = 2
    /\ \E k \in 1..2 : Len(processed_results[k].elements) >= 2
    /\ out = <<[kind |-> "export_complete"]>>
    /\ exports.csv # Absent /\ Len(exports.csv[1]) = 3

NotFoundPaths(msgs) ==
    MapSeq(SelectSeq(msgs, LAMBDA x : x.kind = "not_found"), LAMBDA x : x.path)

Missing(path) == ~Exists(path)

\* out still holds the messages of the latest process command
ProcessOutput ==
    \/ pc = "processing"
    \/ BatchStored
    \/ (pc = "idle" /\ out # <<>> /\ Last(out).kind = "no_valid_paths")

\* the part of C9 that is about validation: the valid sources are the
\* existing paths in the order requested, each missing path is reported once,
\* in the order requested, and a missing path does not end the command
InputResolved ==
    /\ run.valid_paths = SelectSeq(run.file_paths, Exists)
    /\ ProcessOutput => NotFoundPaths(out) = SelectSeq(run.file_paths, Missing)
    /\ (ProcessOutput /\ run.valid_paths # <<>>) => (pc = "processing" \/ BatchStored)

\* C9: input resolution.  Missing paths are rejected one by one, the valid
\* sources are the existing paths in order, and the batch stored has exactly
\* one FileResult per valid source.
C9_InputResolution ==
    /\ InputResolved
    /\ BatchStored => Len(processed_results) = Len(run.valid_paths)

\* a step in which process_files_from_paths is entered: the messages of the
\* command end with the start notice or with the no-valid-path failure
EntersProcess ==
    /\ pc = "idle"
    /\ out' # <<>>
    /\ Last(out').kind \in {"starting", "no_valid_paths"}

\* a step that handles "process" with no path after it
RefusesProcess ==
    /\ pc = "idle"
    /\ out' = <<[kind |-> "provide_paths"]>>

\* C10: a process command with no valid source (every path missing, or no
\* path at all) ends at once with the failure message, hands nothing to the
\* partition engine and leaves the store as it was; the batch loop is only
\* ever entered with at least one valid source.
C10_EmptyBatchLeavesStore ==
    [][ /\ (EntersProcess /\ SelectSeq(run'.file_paths, Exists) = <<>>) =>
               /\ pc' = "idle"
               /\ Last(out').kind = "no_valid_paths"
               /\ partitioned' = <<>>
               /\ processed_results' = processed_results
        /\ RefusesProcess =>
               /\ pc' = "idle"
               /\ partitioned' = <<>>
               /\ processed_results' = processed_results
        /\ pc' = "processing" => SelectSeq(run'.file_paths, Exists) # <<>>
      ]_vars

\* a command naming two missing paths has failed and the store still holds
\* the batch of an earlier run
C10_Witness ==
    /\ pc = "idle"
    /\ Len(run.file_paths) = 2
    /\ SelectSeq(run.file_paths, Exists) = <<>>
    /\ Last(out).kind = "no_valid_paths"
    /\ partitioned = <<>>
    /\ processed_results # <<>>

-----------------------------------------------------------------------------
(* Replacement of the stored batch *)

Produces(path) == ~Partition(path).throws

\* what one run over valid_paths produces, computed from the documents alone
RunResults(valid_paths) ==
    MapSeq(SelectSeq(valid_paths, Produces),
           LAMBDA path : ProcessSingleFile(path, Partition(path)).result[1])

\* C11: replace, not merge.  A process command with at least one valid source
\* starts with an empty local result list and leaves the store alone at every
\* step of the run; the store changes in the single step that ends the run,
\* after every valid source was consumed, and then holds exactly the
\* FileResults of that run, whatever it held before.
C11_ReplaceNotMerge ==
    [][ /\ (pc = "idle" /\ pc' = "processing") =>
              /\ processed_results' = processed_results
              /\ run'.results = <<>>
              /\ run'.i = 0
        /\ (pc = "processing" /\ pc' = "processing") =>
              processed_results' = processed_results
        /\ (pc = "processing" /\ pc' = "idle") =>
              /\ run.i = Len(run.valid_paths)
              /\ run.results = RunResults(run.valid_paths)
              /\ processed_results' = RunResults(run.valid_paths) ]_vars

\* a run has consumed its last source while the store still holds an earlier
\* batch that shares no FileResult with the new one
C11_Witness ==
    /\ pc = "processing"
    /\ run.i = Len(run.valid_paths)
    /\ run.results # <<>>
    /\ processed_results # <<>>
    /\ \A j \in 1..Len(run.results) : \A k \in 1..Len(processed_results) :
          run.results[j] # processed_results[k]

-----------------------------------------------------------------------------
(* The table written by export *)

\* the last command exported the batch the store still holds
Exported ==
    /\ last_write \in {"export", "export_repeat"}
    /\ processed_results # <<>>
    /\ exports.csv # Absent

\* the lines of processed_data.csv after the header line
DataRows == Tail(exports.csv[1])

SuccessfulResults == {k \in 1..Len(processed_results) : processed_results[k].success}

RECURSIVE RecordCount(_)
RecordCount(results) ==
    IF results = <<>> THEN 0
    ELSE Len(Head(results).elements) + RecordCount(Tail(results))

\* C12 as stated: the table has exactly one data row per retained
\* ElementRecord, its row count is the total number of ElementRecords of the
\* batch.
C12_RowPerElementRecord ==
    Exported => Len(DataRows) = RecordCount(processed_results)

\* C12 as amended: the table has, after its header line, exactly one data row
\* per successful FileResult of the batch, in FileResult order, holding that
\* result's filename, element count, word count, file size and file type.
C12_RowPerFileResult ==
    Exported =>
        /\ Head(exports.csv[1])
              = [header |-> <<"filename", "element_count", "word_count",
                              "file_size", "file_type">>]
        /\ Len(exports.csv[1]) = 1 + Cardinality(SuccessfulResults)
        /\ \A k \in 1..Len(DataRows) :
              /\ k \in SuccessfulResults
              /\ DataRows[k].filename = processed_results[k].filename
              /\ DataRows[k].element_count = Len(processed_results[k].elements)
              /\ DataRows[k].word_count = processed_results[k].word_count
              /\ DataRows[k].file_size = processed_results[k].file_size
              /\ DataRows[k].file_type = processed_results[k].file_type

\* an exported batch of two files, one of them with several records
C12_Witness ==
    /\ Exported
    /\ Len(processed_results) = 2
    /\ Len(DataRows) = 2
    /\ RecordCount(processed_results) > 2

-----------------------------------------------------------------------------
(* Position index of the records *)

\* the positions (1-based) of the native elements that are retained
Kept(S) == (S \ Raising(S)) \ Short(S)

\* C13: the position index of every record is the 0-based position of its
\* native element in the sequence partition returned, never its rank among
\* the retained records: the j-th record belongs to the j-th retained element,
\* so the indices are strictly increasing and lie in
\* 0..total_elements_found-1, in the loop and in the returned FileResult.
C13_IndexIsNativePosition ==
    /\ Len(file.structured_data) = Cardinality(Kept(Seen))
    /\ \A j \in 1..Len(file.structured_data) :
          LET k == file.structured_data[j].element_index + 1 IN
             /\ k \in Kept(Seen)
             /\ Cardinality({h \in Kept(Seen) : h < k}) = j - 1
             /\ file.structured_data[j].text = Strip(RawText(file.elements[k]))
             /\ j > 1 => file.structured_data[j - 1].element_index
                            < file.structured_data[j].element_index
    /\ file.state = "succeeded" =>
          /\ Returned1
          /\ file.result[1].elements = file.structured_data
          /\ \A j \in 1..Len(file.result[1].elements) :
                file.result[1].elements[j].element_index
                    \in 0..(file.result[1].total_elements_found - 1)

\* a returned file whose two records have the indices 0 and 2: the element
\* between them was skipped or dropped
C13_Witness ==
    /\ Returned1
    /\ Len(file.result[1].elements) = 2
    /\ file.result[1].elements[1].element_index = 0
    /\ file.result[1].elements[2].element_index = 2

-----------------------------------------------------------------------------
(* The states of one file *)

\* the partition call decides between "failed" and "classifying"
PartitionDecides ==
    file.state = "partitioning" =>
        \A outcome \in PartitionOutcomes :
            FilePartitioned(file, outcome).state
                = IF outcome.throws THEN "failed" ELSE "classifying"

\* "failed" is entered only from the partition call, "succeeded" only from
\* the loop once it has visited every element; both are final.  Each step of
\* the loop visits the next element and keeps the sequence.
FileSteps ==
    [][ /\ file'.state = "failed" =>
              /\ file.state = "partitioning"
              /\ file' = FilePartitioned(file, Raised)
        /\ (file.state = "partitioning" /\ file'.state # "failed") =>
              file' = FilePartitioned(file, Returned(file'.elements))
        /\ file.state = "classifying" =>
              /\ file'.state \in {"classifying", "succeeded"}
              /\ file'.elements = file.elements
              /\ file'.state = "classifying" => file'.i = file.i + 1
              /\ file'.state = "succeeded" =>
                    /\ file.i = Len(file.elements)
                    /\ file'.i = file.i
        /\ file.state \in {"succeeded", "failed"} => file' = file ]_vars

\* the loop is never stuck: while elements are left the loop body takes the
\* next one, whatever it is, and stays in the loop; after the last one the
\* call returns.  Every step of the loop brings i closer to the length of the
\* sequence (FileSteps), so a loop that keeps running reaches "succeeded".
LoopGoesOn ==
    file.state = "classifying" =>
        /\ file.i <= Len(file.elements)
        /\ file.i < Len(file.elements) =>
              /\ LoopBody(file).state = "classifying"
              /\ LoopBody(file).i = file.i + 1
        /\ file.i = Len(file.elements) =>
              /\ FileReturn(file).state = "succeeded"
              /\ FileReturn(file).result[1].success

SucceededResult ==
    file.state = "succeeded" =>
        /\ Returned1
        /\ file.result[1].success
        /\ file.i = Len(file.elements)
        /\ file.result[1].total_elements_found = Len(file.elements)

\* C14: the states of one file.  Once partition has returned a sequence, empty
\* or not, the file always ends in "succeeded" with success = TRUE, after the
\* loop has visited every element exactly once and in order, also when every
\* element was dropped or skipped; it ends in "failed" exactly when partition
\* raises.
C14_FileEndsSucceeded ==
    /\ []PartitionDecides
    /\ []LoopGoesOn
    /\ []SucceededResult
    /\ FileSteps

\* a returned file of three native elements, none of them retained
C14_Witness ==
    /\ Returned1
    /\ file.result[1].success
    /\ file.result[1].total_elements_found = 3
    /\ file.result[1].element_count = 0
    /\ Raising(Seen) # {}
    /\ Short(Seen) # {}

-----------------------------------------------------------------------------
(* Kind of the records *)

\* the fixed table: class of the engine, kind of the record
KindTable ==
    << [cls |-> "Title", kind |-> "title"],
       [cls |-> "NarrativeText", kind |-> "narrative"],
       [cls |-> "ListItem", kind |-> "list_item"],
       [cls |-> "Table", kind |-> "table"],
       [cls |-> "Header", kind |-> "header"],
       [cls |-> "Footer", kind |-> "footer"],
       [cls |-> "Text", kind |-> "text"] >>

\* the native element record j was made from
NativeOf(j) == file.elements[file.structured_data[j].element_index + 1]

\* the rows of the table whose class is the element's own class
RowsOfTag(element) == {n \in 1..Len(KindTable) : KindTable[n].cls = element.cls}

\* the rows of the table whose class the element is an instance of
RowsOfInstance(element) ==
    {n \in 1..Len(KindTable) : KindTable[n].cls \in Ancestors(element.cls)}

First(S) == CHOOSE n \in S : \A m \in S : n <= m

\* C15 as stated: the kind is the table kind when the element's native type
\* tag is one of the table, otherwise the lower-cased native type name, and it
\* is never "unknown".
C15_KindByTypeTag ==
    \A j \in 1..Len(file.structured_data) :
        /\ file.structured_data[j].type # "unknown"
        /\ file.structured_data[j].type
              = IF RowsOfTag(NativeOf(j)) # {}
                THEN KindTable[First(RowsOfTag(NativeOf(j)))].kind
                ELSE Lower(NativeOf(j).cls)

\* C15 as amended: the kind is the kind of the first row of the table whose
\* class the element is an instance of, subclasses included (an element of a
\* class outside the table that derives from Text has the kind "text"); only
\* an element that is an instance of no class of the table has the lower-cased
\* name of its class; the kind is never "unknown".
C15_KindByInstance ==
    \A j \in 1..Len(file.structured_data) :
        /\ file.structured_data[j].type # "unknown"
        /\ file.structured_data[j].type
              = IF RowsOfInstance(NativeOf(j)) # {}
                THEN KindTable[First(RowsOfInstance(NativeOf(j)))].kind
                ELSE Lower(NativeOf(j).cls)

\* a returned file with the records of a Title, of an Address (a class outside
\* the table that derives from Text) and of a CheckBox (outside the table and
\* not a Text)
C15_Witness ==
    /\ Returned1
    /\ Len(file.result[1].elements) = 3
    /\ NativeOf(1).cls = "Title" /\ file.result[1].elements[1].type = "title"
    /\ NativeOf(2).cls = "Address" /\ file.result[1].elements[2].type = "text"
    /\ NativeOf(3).cls = "CheckBox" /\ file.result[1].elements[3].type = "checkbox"

-----------------------------------------------------------------------------
(* Metadata and coordinates are best effort *)

\* the positions whose metadata, or coordinates, conversion raises
BadMetadata(S) == {k \in S : file.elements[k].metadata.how = "raises"}
BadCoordinates(S) == {k \in S : file.elements[k].coordinates.how = "raises"}

\* the same native element with nothing to convert
Plain(element) == [element EXCEPT !.metadata = NoObject, !.coordinates = NoObject]

\* C17: when the conversion of an element's metadata (of its coordinates)
\* fails, the element is still retained, with an empty metadata mapping (with
\* no coordinates); the failure is not counted in skipped_count, and the
\* record's text, kind and position index and the file's word count are what
\* they are for the same element with nothing to convert.
C17_ConversionFailureKeepsRecord ==
    /\ \A k \in Kept(Seen) \cap (BadMetadata(Seen) \cup BadCoordinates(Seen)) :
          /\ Cardinality(RecordsOf(k)) = 1
          /\ \A j \in RecordsOf(k) :
                /\ k \in BadMetadata(Seen) =>
                      file.structured_data[j].metadata = EmptyMapping
                /\ k \in BadCoordinates(Seen) =>
                      file.structured_data[j].coordinates = <<>>
                /\ file.structured_data[j].text = Strip(RawText(file.elements[k]))
                /\ file.structured_data[j].type = ElementType(Plain(file.elements[k]))
                /\ file.structured_data[j].element_index = k - 1
    /\ file.skipped_count = Cardinality(Raising(Seen))
    /\ file.processed_count = Cardinality(Kept(Seen))
    /\ file.word_count = SumTokens(file.structured_data)
    /\ file.state = "succeeded" =>
          /\ Returned1
          /\ file.result[1].elements = file.structured_data
          /\ file.result[1].skipped_count = file.skipped_count
          /\ file.result[1].word_count = file.word_count

\* a returned file whose only element failed both conversions: it is
\* retained, nothing is skipped
C17_Witness ==
    /\ Returned1
    /\ Len(file.elements) = 1
    /\ BadMetadata(Seen) = {1}
    /\ BadCoordinates(Seen) = {1}
    /\ file.result[1].skipped_count = 0
    /\ file.result[1].element_count = 1
    /\ file.result[1].elements[1].metadata = EmptyMapping
    /\ file.result[1].elements[1].coordinates = <<>>
    /\ file.result[1].word_count = 2

-----------------------------------------------------------------------------
(* Accounting of the elements *)

\* C19: exact accounting.  In a returned FileResult element_count,
\* processed_count and the length of the elements list are equal, and
\* processed_count + skipped_count + the number of elements the short-text
\* filter dropped = total_elements_found; in the loop the same holds of the
\* elements visited so far.
C19_ExactAccounting ==
    /\ Len(file.structured_data) = file.processed_count
    /\ file.processed_count + file.skipped_count + Cardinality(Short(Seen)) = file.i
    /\ file.state = "succeeded" =>
          /\ Returned1
          /\ file.result[1].element_count = file.result[1].processed_count
          /\ file.result[1].processed_count = Len(file.result[1].elements)
          /\ file.result[1].processed_count + file.result[1].skipped_count
                + Cardinality(Short(1..Len(file.elements)))
                = file.result[1].total_elements_found

\* a returned file of three elements: one retained, one skipped, one dropped
C19_Witness ==
    /\ Returned1
    /\ file.result[1].total_elements_found = 3
    /\ file.result[1].element_count = 1
    /\ file.result[1].skipped_count = 1
    /\ Cardinality(Short(1..Len(file.elements))) = 1

-----------------------------------------------------------------------------
(* Commands that only read *)

\* what the first message of a reply tells about the command that sent it
ReadOnlyReplies ==
    {"help", "demo", "tip", "provide_paths",
     "no_data_to_show", "show_summary", "no_data_to_export", "export_complete"}

\* a step that handles show, export, help, demo, an unrecognised input or
\* "process" with no path
ReadOnlyCommand ==
    /\ pc = "idle"
    /\ out' # <<>>
    /\ out'[1].kind \in ReadOnlyReplies

\* a step that handles clear, or process with at least one path
WritingCommand ==
    /\ pc = "idle"
    /\ out' # <<>>
    /\ out'[1].kind \in {"cleared", "not_found", "starting", "no_valid_paths"}

\* C18: frame of the commands that do not write.  Show, export, help, demo,
\* an unrecognised input and process without a path never change the store
\* and end at once; an unrecognised input sends the guidance message and
\* nothing else, touches no artifact and leaves no processing state behind.
\* Every command is one of these or a clear or a process with a path.
C18_ReadOnlyCommands ==
    [][ /\ ReadOnlyCommand =>
              /\ processed_results' = processed_results
              /\ pc' = "idle"
        /\ pc = "idle" => (ReadOnlyCommand \/ WritingCommand)
        /\ (ReadOnlyCommand /\ out'[1].kind = "tip") =>
              /\ out' = <<[kind |-> "tip"]>>
              /\ exports' = exports
              /\ run' = NoRun
              /\ last_write' = last_write ]_vars

\* the state right after an unrecognised input, with a batch in the store and
\* artifacts on disk
C18_Witness ==
    /\ pc = "idle"
    /\ out = <<[kind |-> "tip"]>>
    /\ processed_results # <<>>
    /\ exports.json # Absent
    /\ last_write \in {"export", "export_repeat"}

-----------------------------------------------------------------------------
(* Overlapping handlers and the store *)

\* what the process commands of the sessions store when they run to the end
CompleteBatches == {RunResults(ValidPaths(file_paths)) : file_paths \in SessionCalls}

\* the handler t is between the two reads of show_processed_content
Showing(t) == tasks[t].pc = "showing"

\* the handler t takes the step that ends its process command
Stores(t) == tasks[t].pc = "processing" /\ tasks'[t].pc = "idle"

\* C16: reads and writes of the store never interleave.  Between the first and
\* the last read of the store by one show command no process or clear command
\* changes the store, and what a show command reports, summary and previews,
\* is one single batch.
C16_ReadsAndWritesDoNotInterleave ==
    [][ /\ (\E t \in Tasks : Showing(t)) => processed_results' = processed_results
        /\ \A t \in Tasks :
              (Showing(t) /\ ~Showing(t)') =>
                  \E batch \in CompleteBatches : tasks'[t].msgs = ShowMsgs(batch) ]_vars

\* C20: store atomicity when handlers overlap.  The store is always empty or
\* the complete result list of one process invocation: it changes only when a
\* clear empties it or when a process run that has consumed all its sources
\* ends, and then it is exactly the results of that run, whatever it held (a
\* clear issued during the run is overwritten); no step of a run in flight
\* makes a part of its batch visible.
C20_StoreIsEmptyOrOneBatch ==
    [][ /\ processed_results' \in CompleteBatches \cup {<<>>}
        /\ processed_results' # processed_results =>
              \/ processed_results' = <<>>
              \/ \E t \in Tasks : Stores(t)
        /\ \A t \in Tasks :
              Stores(t) =>
                  /\ tasks[t].run.i = Len(tasks[t].run.valid_paths)
                  /\ tasks[t].run.results = RunResults(tasks[t].run.valid_paths)
                  /\ processed_results' = tasks[t].run.results
        /\ \A t \in Tasks :
              (tasks[t].pc = "processing" /\ tasks'[t].pc = "processing"
                    /\ tasks'[t] # tasks[t]) =>
                  processed_results' = processed_results ]_vars

\* a clear was issued while a run was in flight, and the run has ended since:
\* the store holds the batch of the run (every process command that started
\* sets last_write, so none started after the clear)
C20_Witness ==
    /\ last_write = "clear"
    /\ processed_results # <<>>
    /\ \E t \in Tasks :
          /\ tasks[t].pc = "idle"
          /\ tasks[t].msgs # <<>>
          /\ Last(tasks[t].msgs).kind = "batch_summary"
          /\ processed_results = tasks[t].run.results
          /\ Len(tasks[t].run.valid_paths) = 2

====
